---------------------------- MODULE Spec2Model ----------------------------
(***************************************************************************)
(* Model of analysis.py (class Ardustat): the loader in __init__ and the   *)
(* cycle segmentation and trapezoidal integration in get_cycle_data.       *)
(*                                                                         *)
(* Numbers.  A field of the file is a token (a string); float() is the     *)
(* table Float.  Every float of the program is held as an integer count of *)
(* tenths (3.7 is 37, -50 is -500); a time in hours is held in units of    *)
(* 1/3600 h, so a time-stamp that is a whole number of seconds divides     *)
(* exactly.  Time differences are then even, which makes the halving in    *)
(* the trapezoid rule exact.                                               *)
(*                                                                         *)
(* Indices.  index, row_i and the column positions are 0-based as in the   *)
(* Python source; TLA+ sequences are 1-based, hence the "+ 1" on access.   *)
(***************************************************************************)
EXTENDS Integers, Sequences, FiniteSets

VARIABLES
    rows,       \* f.readlines(), each row already split on ' '
    kwargs,     \* the keyword arguments given to __init__
    pc,         \* "load", "scan", "integrate_discharge", "integrate_charge",
                \* "done", or the exception that left __init__:
                \* "ValueError" (float) or "IndexError" (a subscript)
    row_i,      \* number of rows the loader has consumed
    time, voltage, current,                         \* self.time, ...
    index,      \* loop variable of the running loop of get_cycle_data
    time_group, voltage_group, current_group,       \* the open segment
    index_group,                                    \* history: indices in it
    time_cycles_raw_charge, voltage_cycles_raw_charge,
    current_cycles_raw_charge, index_cycles_raw_charge,
    charge_capacity, charge_power,
    time_cycles_raw_discharge, voltage_cycles_raw_discharge,
    current_cycles_raw_discharge, index_cycles_raw_discharge,
    discharge_capacity, discharge_power

trace  == <<time, voltage, current>>
groups == <<time_group, voltage_group, current_group, index_group>>
charge == <<time_cycles_raw_charge, voltage_cycles_raw_charge,
            current_cycles_raw_charge, index_cycles_raw_charge>>
discharge == <<time_cycles_raw_discharge, voltage_cycles_raw_discharge,
               current_cycles_raw_discharge, index_cycles_raw_discharge>>
derived == <<charge_capacity, charge_power,
             discharge_capacity, discharge_power>>
vars == <<rows, kwargs, pc, row_i, trace, index, groups, charge, discharge,
          derived>>

---------------------------------------------------------------------------
(* Bounds and program constants *)

MaxRows == 5

time_index == 0
voltage_index == 5
current_index == 8
MsPerHour == 3600000

---------------------------------------------------------------------------
(* Input files *)

\* A filler field, which float() rejects.
Dot == "."

\* float(value): the number a token denotes, in tenths.
Float(value) ==
    CASE value = "0"     -> 0
      [] value = "1000"  -> 10000
      [] value = "2000"  -> 20000
      [] value = "3000"  -> 30000
      [] value = "4000"  -> 40000
      [] value = "5000"  -> 50000
      [] value = "7000"  -> 70000
      [] value = "8000"  -> 80000
      [] value = "9000"  -> 90000
      [] value = "3.4"   -> 34
      [] value = "3.5"   -> 35
      [] value = "3.6"   -> 36
      [] value = "3.7"   -> 37
      [] value = "100"   -> 1000
      [] value = "-50"   -> -500

\* float(value) raises ValueError on anything that is not a number.
Parseable(value) == value # Dot

TimeToks == <<"1000", "2000", "4000", "5000", "7000", "8000", "9000">>
VoltToks == <<"3.6", "3.7", "3.5", "3.7", "3.4", "3.6", "3.5">>
CurrentToks == {"-50", "0", "100"}

\* A nine-field row holding t, v and c at positions 0, 5 and 8.
FullRow(t, v, c) ==
    [f \in 1..9 |-> IF f = 1 THEN t ELSE IF f = 6 THEN v
                    ELSE IF f = 9 THEN c ELSE Dot]

\* The shapes a generated row takes: a current token (a well-formed row),
\* "short" (the row stops after the voltage field) or "bad" (the voltage
\* field is not a number).
Shapes == CurrentToks \cup {"short", "bad"}

RowOf(k, shape) ==
    IF shape = "short" THEN SubSeq(FullRow(TimeToks[k], VoltToks[k], Dot), 1, 6)
    ELSE IF shape = "bad" THEN FullRow(TimeToks[k], Dot, "100")
    ELSE FullRow(TimeToks[k], VoltToks[k], shape)

\* The file of the end-to-end scenario.
ScenarioFile ==
    << FullRow("0", "3.7", "100"), FullRow("1000", "3.6", "100"),
       FullRow("2000", "3.5", "-50"), FullRow("3000", "3.4", "-50") >>

FileOf(sh) == [k \in DOMAIN sh |-> RowOf(k, sh[k])]

\* rows is a file the model reads: a generated file of at most MaxRows rows
\* or the scenario file.
IsFile(f) ==
    \/ \E n \in 0..MaxRows : \E sh \in [1..n -> Shapes] : f = FileOf(sh)
    \/ f = ScenarioFile

\* The keyword arguments tried: the documented defaults spelled out, and
\* voltage and current exchanged.
KwargsChoices ==
    { [time_index |-> 0, voltage_index |-> 5, current_index |-> 8],
      [time_index |-> 0, voltage_index |-> 8, current_index |-> 5] }

---------------------------------------------------------------------------
(* Helpers of the program *)

\* list.append
list_append(list, value) == Append(list, value)

\* numpy.abs
Abs(value) == IF value < 0 THEN -value ELSE value

\* Mutant of AbsGroup: the absolute value is forgotten.
MutAbsGroupIdentity(group) == group

\* [numpy.abs(value) for value in current_group]
AbsGroup(group) == [k \in 1..Len(group) |-> Abs(group[k])]

\* The body of "for index, value in enumerate(row.split(' '))" from field k
\* on.  acc holds the three lists and ok, which turns FALSE when float()
\* raises; nothing after the raise is executed.
RECURSIVE ScanFields(_, _, _)
ScanFields(row, k, acc) ==
    IF k >= Len(row) THEN acc
    ELSE LET value == row[k + 1] IN
         IF k = time_index THEN
             IF Parseable(value)
             THEN ScanFields(row, k + 1,
                      [acc EXCEPT !.time = list_append(@, Float(value))])
             ELSE [acc EXCEPT !.ok = FALSE]
         ELSE IF k = voltage_index THEN
             IF Parseable(value)
             THEN ScanFields(row, k + 1,
                      [acc EXCEPT !.voltage = list_append(@, Float(value))])
             ELSE [acc EXCEPT !.ok = FALSE]
         ELSE IF k = current_index THEN
             IF Parseable(value)
             THEN ScanFields(row, k + 1,
                      [acc EXCEPT !.current = list_append(@, Float(value))])
             ELSE [acc EXCEPT !.ok = FALSE]
         ELSE ScanFields(row, k + 1, acc)

\* (x - self.time[0]) / 3600000, the result in units of 1/3600 h.
HoursSince(x, first) == ((x - first) * 3600) \div MsPerHour

\* [(x-self.time[0])/3600000 for x in self.time]
NormalizeTime(t) == [k \in 1..Len(t) |-> HoursSince(t[k], t[1])]

\* Mutant of ChargeBoundary: a zero successor counts as positive.
MutChargeBoundaryNonStrict(cur, i) == cur[i + 2] >= 0 /\ cur[i + 1] < 0

\* self.current[index+1] > 0 and self.current[index] < 0
ChargeBoundary(cur, i) == cur[i + 2] > 0 /\ cur[i + 1] < 0

\* Mutants of DischargeBoundary: a zero successor counts as negative; the
\* test of the charge branch is repeated.
MutDischargeBoundaryNonStrict(cur, i) == cur[i + 2] <= 0 /\ cur[i + 1] > 0
MutDischargeBoundaryAsCharge(cur, i) == cur[i + 2] > 0 /\ cur[i + 1] < 0

\* self.current[index+1] < 0 and self.current[index] > 0
DischargeBoundary(cur, i) == cur[i + 2] < 0 /\ cur[i + 1] > 0

\* Mutants of ScanRange: range(len(self.current)-2) and
\* range(len(self.current)).
MutScanRangeShort(cur) == 0 .. (Len(cur) - 3)
MutScanRangeWhole(cur) == 0 .. (Len(cur) - 1)

\* range(len(self.current)-1): the indices the scan visits
ScanRange(cur) == 0 .. (Len(cur) - 2)

\* [voltage[index]*current[index] for index in range(len(current))]
PowerOf(v, c) == [k \in 1..Len(c) |-> v[k] * c[k]]

\* Mutant of trapz: the left rectangle rule.
RECURSIVE MutRectanglesFrom(_, _, _)
MutRectanglesFrom(y, x, k) ==
    IF k >= Len(y) THEN 0
    ELSE (x[k + 1] - x[k]) * y[k] + MutRectanglesFrom(y, x, k + 1)

MutTrapzLeftRectangle(y, x) == MutRectanglesFrom(y, x, 1)

\* numpy.trapz(y, x=x): sum of diff(x) * (y[1:] + y[:-1]) / 2.0, which is 0
\* for fewer than two points.
RECURSIVE TrapzFrom(_, _, _)
TrapzFrom(y, x, k) ==
    IF k >= Len(y) THEN 0
    ELSE ((x[k + 1] - x[k]) * (y[k + 1] + y[k])) \div 2 + TrapzFrom(y, x, k + 1)

trapz(y, x) == TrapzFrom(y, x, 1)

\* Mutant of PcCharge: the loop bound of line 130, len(...)-1, is repeated
\* at line 168.
MutPcChargeSkipsLast(i, nc) ==
    IF i < nc - 1 THEN "integrate_charge" ELSE "done"

\* Where control goes when the loop at line 130 has advanced to index i,
\* given the numbers nd and nc of discharge and charge cycles recorded: the
\* three loops of get_cycle_data run one after the other and an exhausted
\* (or empty) range is skipped.
PcCharge(i, nc) == IF i < nc THEN "integrate_charge" ELSE "done"

PcDischarge(i, nd, nc) ==
    IF i < nd THEN "integrate_discharge" ELSE PcCharge(0, nc)

PcScan(i, cur, nd, nc) ==
    IF i \in ScanRange(cur) THEN "scan" ELSE PcDischarge(0, nd, nc)

---------------------------------------------------------------------------
(* State machine *)

Init ==
    /\ IsFile(rows)
    /\ kwargs \in KwargsChoices
    /\ pc = "load"
    /\ row_i = 0
    /\ time = <<>> /\ voltage = <<>> /\ current = <<>>
    /\ index = 0
    /\ time_group = <<>> /\ voltage_group = <<>> /\ current_group = <<>>
    /\ index_group = <<>>
    /\ time_cycles_raw_charge = <<>> /\ voltage_cycles_raw_charge = <<>>
    /\ current_cycles_raw_charge = <<>> /\ index_cycles_raw_charge = <<>>
    /\ charge_capacity = <<>> /\ charge_power = <<>>
    /\ time_cycles_raw_discharge = <<>> /\ voltage_cycles_raw_discharge = <<>>
    /\ current_cycles_raw_discharge = <<>> /\ index_cycles_raw_discharge = <<>>
    /\ discharge_capacity = <<>> /\ discharge_power = <<>>

\* One iteration of "for row in rows" (lines 65-73).
ReadRow ==
    /\ pc = "load"
    /\ row_i < Len(rows)
    /\ LET r == ScanFields(rows[row_i + 1], 0,
                   [time |-> time, voltage |-> voltage, current |-> current,
                    ok |-> TRUE])
       IN /\ time' = r.time
          /\ voltage' = r.voltage
          /\ current' = r.current
          /\ pc' = IF r.ok THEN "load" ELSE "ValueError"
    /\ row_i' = row_i + 1
    /\ UNCHANGED <<rows, kwargs, index, groups, charge, discharge, derived>>

\* Lines 75-76 and the variable initialization of get_cycle_data (lines
\* 113-127), once every row is read.
StartAnalysis ==
    /\ pc = "load"
    /\ row_i = Len(rows)
    /\ time' = NormalizeTime(time)
    /\ index' = 0
    /\ time_group' = <<>> /\ voltage_group' = <<>> /\ current_group' = <<>>
    /\ index_group' = <<>>
    /\ time_cycles_raw_charge' = <<>> /\ voltage_cycles_raw_charge' = <<>>
    /\ current_cycles_raw_charge' = <<>> /\ index_cycles_raw_charge' = <<>>
    /\ charge_capacity' = <<>> /\ charge_power' = <<>>
    /\ time_cycles_raw_discharge' = <<>>
    /\ voltage_cycles_raw_discharge' = <<>>
    /\ current_cycles_raw_discharge' = <<>>
    /\ index_cycles_raw_discharge' = <<>>
    /\ discharge_capacity' = <<>> /\ discharge_power' = <<>>
    /\ pc' = PcScan(0, current, 0, 0)
    /\ UNCHANGED <<rows, kwargs, row_i, voltage, current>>

\* One iteration of the binning loop (lines 130-155).
ScanStep ==
    /\ pc = "scan"
    /\ index \in ScanRange(current)
    /\ IF \/ index + 1 > Len(time) \/ index + 1 > Len(voltage)
          \/ index + 2 > Len(current)
       THEN \* IndexError at line 131, 132 or 135
            /\ pc' = "IndexError"
            /\ UNCHANGED <<index, groups, charge, discharge>>
       ELSE LET tg == list_append(time_group, time[index + 1])
                vg == list_append(voltage_group, voltage[index + 1])
                cg == list_append(current_group, current[index + 1])
                ig == list_append(index_group, index)
            IN IF ChargeBoundary(current, index) THEN
                   /\ time_cycles_raw_charge' =
                          list_append(time_cycles_raw_charge, tg)
                   /\ voltage_cycles_raw_charge' =
                          list_append(voltage_cycles_raw_charge, vg)
                   /\ current_cycles_raw_charge' =
                          list_append(current_cycles_raw_charge, AbsGroup(cg))
                   /\ index_cycles_raw_charge' =
                          list_append(index_cycles_raw_charge, ig)
                   /\ time_group' = <<>> /\ voltage_group' = <<>>
                   /\ current_group' = <<>> /\ index_group' = <<>>
                   /\ UNCHANGED discharge
                   /\ index' = IF index + 1 \in ScanRange(current)
                               THEN index + 1 ELSE 0
                   /\ pc' = PcScan(index + 1, current,
                                   Len(current_cycles_raw_discharge),
                                   Len(current_cycles_raw_charge) + 1)
               ELSE IF DischargeBoundary(current, index) THEN
                   /\ time_cycles_raw_discharge' =
                          list_append(time_cycles_raw_discharge, tg)
                   /\ voltage_cycles_raw_discharge' =
                          list_append(voltage_cycles_raw_discharge, vg)
                   /\ current_cycles_raw_discharge' =
                          list_append(current_cycles_raw_discharge,
                                      AbsGroup(cg))
                   /\ index_cycles_raw_discharge' =
                          list_append(index_cycles_raw_discharge, ig)
                   /\ time_group' = <<>> /\ voltage_group' = <<>>
                   /\ current_group' = <<>> /\ index_group' = <<>>
                   /\ UNCHANGED charge
                   /\ index' = IF index + 1 \in ScanRange(current)
                               THEN index + 1 ELSE 0
                   /\ pc' = PcScan(index + 1, current,
                                   Len(current_cycles_raw_discharge) + 1,
                                   Len(current_cycles_raw_charge))
               ELSE
                   /\ time_group' = tg /\ voltage_group' = vg
                   /\ current_group' = cg /\ index_group' = ig
                   /\ UNCHANGED <<charge, discharge>>
                   /\ index' = IF index + 1 \in ScanRange(current)
                               THEN index + 1 ELSE 0
                   /\ pc' = PcScan(index + 1, current,
                                   Len(current_cycles_raw_discharge),
                                   Len(current_cycles_raw_charge))
    /\ UNCHANGED <<rows, kwargs, row_i, trace, derived>>

\* One iteration of the first integration loop (lines 158-166).
IntegrateDischarge ==
    /\ pc = "integrate_discharge"
    /\ index < Len(current_cycles_raw_discharge)
    /\ LET t == time_cycles_raw_discharge[index + 1]
           v == voltage_cycles_raw_discharge[index + 1]
           c == current_cycles_raw_discharge[index + 1]
           power == PowerOf(v, c)
       IN /\ discharge_capacity' = list_append(discharge_capacity, trapz(c, t))
          /\ discharge_power' = list_append(discharge_power, trapz(power, t))
    /\ pc' = PcDischarge(index + 1, Len(current_cycles_raw_discharge),
                         Len(current_cycles_raw_charge))
    /\ index' = IF index + 1 < Len(current_cycles_raw_discharge)
                THEN index + 1 ELSE 0
    /\ UNCHANGED <<rows, kwargs, row_i, trace, groups, charge, discharge,
                   charge_capacity, charge_power>>

\* One iteration of the second integration loop (lines 168-176).
IntegrateCharge ==
    /\ pc = "integrate_charge"
    /\ index < Len(current_cycles_raw_charge)
    /\ LET t == time_cycles_raw_charge[index + 1]
           v == voltage_cycles_raw_charge[index + 1]
           c == current_cycles_raw_charge[index + 1]
           power == PowerOf(v, c)
       IN /\ charge_capacity' = list_append(charge_capacity, trapz(c, t))
          /\ charge_power' = list_append(charge_power, trapz(power, t))
    /\ pc' = PcCharge(index + 1, Len(current_cycles_raw_charge))
    /\ index' = IF index + 1 < Len(current_cycles_raw_charge)
                THEN index + 1 ELSE 0
    /\ UNCHANGED <<rows, kwargs, row_i, trace, groups, charge, discharge,
                   discharge_capacity, discharge_power>>

Next ==
    \/ ReadRow
    \/ StartAnalysis
    \/ ScanStep
    \/ IntegrateDischarge
    \/ IntegrateCharge

Spec == Init /\ [][Next]_vars

---------------------------------------------------------------------------
TypeOK == pc \in {"load", "scan", "integrate_discharge", "integrate_charge",
                  "done", "ValueError", "IndexError"}


---------------------------------------------------------------------------
(* Vocabulary of the properties.  These definitions state what the         *)
(* properties talk about and are independent of the helpers above.         *)

\* The scan is over: the half-cycle collections are final.
AfterScan == pc \in {"integrate_discharge", "integrate_charge", "done"}

\* __init__ got past the loader.
Loaded == pc \notin {"load", "ValueError"}

Magnitude(v) == IF v >= 0 THEN v ELSE 0 - v

\* Strict sign inversions between the samples of indices i and i+1.
NegToPos(cur, i) == cur[i + 1] < 0 /\ cur[i + 2] > 0
PosToNeg(cur, i) == cur[i + 1] > 0 /\ cur[i + 2] < 0
Inversions(cur) ==
    { i \in 0 .. (Len(cur) - 2) : NegToPos(cur, i) \/ PosToNeg(cur, i) }

MaxOf(S) == CHOOSE m \in S : \A x \in S : x <= m
MinOf(S) == CHOOSE m \in S : \A x \in S : m <= x

\* The index after the last inversion before i: where the segment that is
\* open at i began.
SegmentStart(cur, i) ==
    LET before == { j \in Inversions(cur) : j < i }
    IN IF before = {} THEN 0 ELSE MaxOf(before) + 1

\* The indices a .. b, and the samples of seq at them.
Indices(a, b) == [k \in 1 .. (b - a + 1) |-> a + k - 1]
Samples(seq, a, b) == [k \in 1 .. (b - a + 1) |-> seq[a + k]]
MagnitudeSamples(seq, a, b) ==
    [k \in 1 .. (b - a + 1) |-> Magnitude(seq[a + k])]

\* The trace indices found in the half-cycles of a collection.
IndicesIn(cycles) ==
    UNION { { cycles[k][j] : j \in 1 .. Len(cycles[k]) } :
            k \in 1 .. Len(cycles) }
EmittedIndices ==
    IndicesIn(index_cycles_raw_charge) \cup
    IndicesIn(index_cycles_raw_discharge)

\* Twice the trapezoid sum of y over x, summed from the last term down.
RECURSIVE TwiceTrapezoids(_, _, _)
TwiceTrapezoids(y, x, n) ==
    IF n < 2 THEN 0
    ELSE (x[n] - x[n - 1]) * (y[n - 1] + y[n]) + TwiceTrapezoids(y, x, n - 1)

Products(v, c) == [k \in 1 .. Len(c) |-> v[k] * c[k]]

---------------------------------------------------------------------------
(* Properties *)

\* C1: in the scan iteration at index i a half-cycle is emitted exactly when
\* current[i] and current[i+1] are of strictly opposite sign, as CHARGE for
\* negative-then-positive and as DISCHARGE for positive-then-negative; the
\* emitted segment is the samples since the previous emission up to and
\* including i, and the three buffers are empty afterwards.  When either
\* value is zero nothing is emitted and sample i stays in the open segment.
C1_EmitIffStrictInversion ==
    [][ pc = "scan" =>
        LET i == index
            lo == SegmentStart(current, i)
            segment == << Samples(time, lo, i), Samples(voltage, lo, i),
                          MagnitudeSamples(current, lo, i), Indices(lo, i) >>
            emitted(before, after) ==
                \A f \in 1..4 : after[f] = Append(before[f], segment[f])
            emptied ==
                /\ time_group' = <<>> /\ voltage_group' = <<>>
                /\ current_group' = <<>> /\ index_group' = <<>>
        IN /\ charge' # charge <=> NegToPos(current, i)
           /\ discharge' # discharge <=> PosToNeg(current, i)
           /\ NegToPos(current, i) => emitted(charge, charge') /\ emptied
           /\ PosToNeg(current, i) => emitted(discharge, discharge') /\ emptied
           /\ (current[i + 1] = 0 \/ current[i + 2] = 0) =>
                 /\ charge' = charge /\ discharge' = discharge
                 /\ time_group' = Append(time_group, time[i + 1])
                 /\ voltage_group' = Append(voltage_group, voltage[i + 1])
                 /\ current_group' = Append(current_group, current[i + 1])
                 /\ index_group' = Append(index_group, i)
      ]_vars

\* A CHARGE half-cycle that began after an earlier emission and took in a
\* zero sample has been emitted.
C1_Witness ==
    \E k \in 1..Len(index_cycles_raw_charge) :
        /\ index_cycles_raw_charge[k][1] > 0
        /\ \E j \in 1..Len(index_cycles_raw_charge[k]) :
               current[index_cycles_raw_charge[k][j] + 1] = 0

\* C2 (as stated): the samples up to the first detected boundary and the
\* samples after the last detected boundary appear in no emitted half-cycle.
C2_LeadingAndTrailingDiscarded ==
    (AfterScan /\ Inversions(current) # {}) =>
        \A j \in 0 .. (Len(current) - 1) :
            (j <= MinOf(Inversions(current)) \/ j > MaxOf(Inversions(current)))
                => j \notin EmittedIndices

\* C2 (amended): only the samples after the last detected boundary (every
\* sample when no boundary is detected) appear in no emitted half-cycle; the
\* samples of indices 0 .. b1 up to the first detected boundary are the first
\* emitted half-cycle.
C2_OnlyTrailingDiscarded ==
    AfterScan =>
        LET inv == Inversions(current) IN
        /\ EmittedIndices =
               IF inv = {} THEN {} ELSE 0 .. MaxOf(inv)
        /\ inv # {} =>
               \E cycles \in {index_cycles_raw_charge,
                              index_cycles_raw_discharge} :
                   /\ Len(cycles) > 0
                   /\ cycles[1] = Indices(0, MinOf(inv))

\* The scan has ended on a trace with a boundary after index 0 and with
\* samples left over behind the last boundary.
C2_Witness ==
    /\ pc = "done"
    /\ Inversions(current) # {}
    /\ MinOf(Inversions(current)) > 0
    /\ MaxOf(Inversions(current)) < Len(current) - 2

\* C3: a trace with exactly one strict sign inversion, between b and b+1,
\* yields exactly one half-cycle in all; it covers the indices 0 .. b and no
\* sample of a greater index is in any half-cycle.
C3_OneInversionOneHalfCycle ==
    (AfterScan /\ Cardinality(Inversions(current)) = 1) =>
        LET b == MinOf(Inversions(current))
            all == index_cycles_raw_charge \o index_cycles_raw_discharge
        IN /\ Len(all) = 1
           /\ all[1] = Indices(0, b)
           /\ \A j \in EmittedIndices : j <= b
           /\ (Len(current) - 1) \notin EmittedIndices

\* The analysis of a one-inversion trace is complete, with the inversion
\* neither at the start nor at the end of the trace.
C3_Witness ==
    /\ pc = "done"
    /\ Cardinality(Inversions(current)) = 1
    /\ \E b \in Inversions(current) : 0 < b /\ b < Len(current) - 2

\* C4 (as stated): the scenario trace yields one CHARGE half-cycle over the
\* indices 0-1 and an empty discharge collection.
C4_ScenarioOneCharge ==
    (rows = ScenarioFile /\ AfterScan) =>
        /\ Inversions(current) = {1}
        /\ index_cycles_raw_charge = << <<0, 1>> >>
        /\ index_cycles_raw_discharge = <<>>

\* C4 (amended): the scenario trace has exactly one boundary, between the
\* indices 1 and 2, and yields exactly one half-cycle, of kind DISCHARGE,
\* over the indices 0-1; the charge collection is empty.
C4_ScenarioOneDischarge ==
    (rows = ScenarioFile /\ AfterScan) =>
        /\ current = <<1000, 1000, -500, -500>>
        /\ voltage = <<37, 36, 35, 34>>
        /\ Inversions(current) = {1}
        /\ index_cycles_raw_discharge = << <<0, 1>> >>
        /\ current_cycles_raw_discharge = << <<1000, 1000>> >>
        /\ voltage_cycles_raw_discharge = << <<37, 36>> >>
        /\ index_cycles_raw_charge = <<>>
        /\ current_cycles_raw_charge = <<>>

\* The analysis of the scenario file is complete.
C4_Witness == rows = ScenarioFile /\ pc = "done"

\* C5: every current value of every emitted half-cycle, of either kind, is
\* >= 0 and is the absolute value of the trace sample it was taken from.
C5_EmittedCurrentIsAbsolute ==
    \A pair \in { <<current_cycles_raw_charge, index_cycles_raw_charge>>,
                  <<current_cycles_raw_discharge,
                    index_cycles_raw_discharge>> } :
        /\ Len(pair[1]) = Len(pair[2])
        /\ \A k \in 1..Len(pair[1]) :
               /\ Len(pair[1][k]) = Len(pair[2][k])
               /\ \A j \in 1..Len(pair[1][k]) :
                      /\ pair[1][k][j] >= 0
                      /\ pair[1][k][j] = Magnitude(current[pair[2][k][j] + 1])

\* A half-cycle holding a zero, a negative and a positive trace sample has
\* been emitted.
C5_Witness ==
    \E cycles \in {index_cycles_raw_charge, index_cycles_raw_discharge} :
        \E k \in 1..Len(cycles) :
            /\ \E j \in 1..Len(cycles[k]) : current[cycles[k][j] + 1] = 0
            /\ \E j \in 1..Len(cycles[k]) : current[cycles[k][j] + 1] < 0
            /\ \E j \in 1..Len(cycles[k]) : current[cycles[k][j] + 1] > 0

\* C6: after the analysis each derived sequence has one element per
\* half-cycle of its kind, the k-th element is computed from the k-th
\* half-cycle, and within a kind the half-cycles are in increasing order of
\* the index at which their boundary was detected.
C6_DerivedFollowCycleOrder ==
    pc = "done" =>
        \A q \in { << charge, charge_capacity, charge_power >>,
                   << discharge, discharge_capacity, discharge_power >> } :
            LET t == q[1][1]  v == q[1][2]  c == q[1][3]  ix == q[1][4]
                n == Len(c)
            IN /\ Len(q[2]) = n /\ Len(q[3]) = n
               /\ Len(t) = n /\ Len(v) = n /\ Len(ix) = n
               /\ \A k \in 1..n :
                      /\ q[2][k] = trapz(c[k], t[k])
                      /\ q[3][k] = trapz(PowerOf(v[k], c[k]), t[k])
               /\ \A k \in 1..(n - 1) :
                      ix[k][Len(ix[k])] < ix[k + 1][Len(ix[k + 1])]

\* The analysis is complete with two CHARGE half-cycles of different
\* capacity and power, and a DISCHARGE half-cycle between them.
C6_Witness ==
    /\ pc = "done"
    /\ Len(charge_capacity) >= 2
    /\ charge_capacity[1] # charge_capacity[2]
    /\ charge_power[1] # charge_power[2]
    /\ Len(discharge_power) >= 1

\* C7: the capacity of an emitted half-cycle of n samples is the sum over
\* k = 0 .. n-2 of (x[k+1]-x[k]) * (c[k]+c[k+1]) / 2, its power the same sum
\* over p[k] = v[k]*c[k]; for n = 1 both are 0 and the analysis completes.
C7_TrapezoidalIntegrals ==
    pc = "done" =>
        \A q \in { << charge, charge_capacity, charge_power >>,
                   << discharge, discharge_capacity, discharge_power >> } :
            \A k \in 1..Len(q[1][3]) :
                LET x == q[1][1][k]  v == q[1][2][k]  c == q[1][3][k]
                    n == Len(c)
                IN /\ 2 * q[2][k] = TwiceTrapezoids(c, x, n)
                   /\ 2 * q[3][k] = TwiceTrapezoids(Products(v, c), x, n)
                   /\ n = 1 => q[2][k] = 0 /\ q[3][k] = 0

\* The analysis is complete with a one-sample half-cycle and a half-cycle of
\* non-zero capacity and power.
C7_Witness ==
    /\ pc = "done"
    /\ \E k \in 1..Len(current_cycles_raw_charge) :
           Len(current_cycles_raw_charge[k]) = 1
    /\ \E k \in 1..Len(discharge_capacity) :
           /\ Len(current_cycles_raw_discharge[k]) > 2
           /\ 2 * discharge_power[k] # 73 * discharge_capacity[k]
           /\ discharge_capacity[k] > 0 /\ discharge_power[k] > 0

C9_LoadedTraceAligned ==
    Loaded =>
        /\ \A r \in 1..Len(rows) : Len(rows[r]) >= 9
        /\ Len(time) = Len(rows)
        /\ Len(voltage) = Len(rows)
        /\ Len(current) = Len(rows)
        /\ \A r \in 1..Len(rows) :
               /\ voltage[r] = Float(rows[r][6])
               /\ current[r] = Float(rows[r][9])

\* C10: the column positions given at construction decide which field of a
\* row becomes its voltage and its current sample.
C10_KwargsSelectColumns ==
    (Loaded /\ \A r \in 1..Len(rows) : Len(rows[r]) >= 9) =>
        /\ Len(voltage) = Len(rows) /\ Len(current) = Len(rows)
        /\ \A r \in 1..Len(rows) :
               /\ voltage[r] = Float(rows[r][kwargs.voltage_index + 1])
               /\ current[r] = Float(rows[r][kwargs.current_index + 1])

=============================================================================
